---- MODULE Spec2Model ----
(***************************************************************************)
(* Model of the Figma-to-registry server: the classifier and tree walk     *)
(* (isAtomicComponent, isScreenOrFrame, extractAllNestedComponents) and    *)
(* the request handlers /api/parse-figma, /api/check-component and         *)
(* /api/parse-and-check.  One request is in flight at a time; every        *)
(* handler keeps its data in locals, so requests do not interact.          *)
(*                                                                         *)
(* Strings are TLA+ strings (sequences of characters): toLowerCase and     *)
(* includes are computed character by character.                           *)
(***************************************************************************)
EXTENDS Integers, Sequences, FiniteSets, TLC

(***************************************************************************)
(* Bounds of the model.                                                    *)
(***************************************************************************)
\* Largest number of nodes of a generated document tree.
MaxNodes == 3
\* Largest number of non-empty pages the registry source serves.
MaxPages == 2
\* Largest length of the figmaComponents list of a check-component request.
MaxFigmaComponents == 2

(***************************************************************************)
(* JavaScript values.                                                      *)
(***************************************************************************)
\* An absent number (undefined): node.absoluteBoundingBox?.width of a node
\* without a bounding box, err.response?.status of a network error.
Undefined == -1

\* a < b of JavaScript for a number or undefined a: undefined < b is false.
JsLess(a, b) == a # Undefined /\ a < b

\* a >= b of JavaScript for a number or undefined a: undefined >= b is false.
JsGreaterEq(a, b) == a # Undefined /\ a >= b

UpperCase == "ABCDEFGHIJKLMNOPQRSTUVWXYZ"
LowerCase == "abcdefghijklmnopqrstuvwxyz"

\* The lower-case letter of every upper-case letter.
lowerOf ==
  [ c \in { SubSeq(UpperCase, i, i) : i \in 1..Len(UpperCase) } |->
      LET i == CHOOSE j \in 1..Len(UpperCase) : SubSeq(UpperCase, j, j) = c
      IN SubSeq(LowerCase, i, i) ]

\* One character lower-cased: only the upper-case letters change.
LowerChar(c) == IF c \in DOMAIN lowerOf THEN lowerOf[c] ELSE c

\* String.prototype.toLowerCase.
RECURSIVE toLowerCase(_)
toLowerCase(s) ==
  IF Len(s) = 0 THEN ""
  ELSE LowerChar(SubSeq(s, 1, 1)) \o toLowerCase(SubSeq(s, 2, Len(s)))

\* String.prototype.includes: p occurs in s as a contiguous substring.
includes(s, p) ==
  \E i \in 1..(Len(s) - Len(p) + 1) : SubSeq(s, i, i + Len(p) - 1) = p

\* Array.prototype.some over a sequence of patterns.
somePattern(patterns, name) ==
  \E i \in 1..Len(patterns) : includes(name, patterns[i])

\* files.map(f => f.path)
pathsOf(files) == [i \in 1..Len(files) |-> files[i].path]

\* atomicComponents.map(c => c.name)
namesOf(records) == [i \in 1..Len(records) |-> records[i].name]

(***************************************************************************)
(* Classifier.                                                             *)
(* A node is [id, name, type, hasBox, width, height, hasChildren,          *)
(* children, description, style]: hasBox says whether absoluteBoundingBox  *)
(* is present, width/height are numbers or Undefined, hasChildren says     *)
(* whether the children field is present.                                  *)
(***************************************************************************)
atomicPatterns ==
  << "button", "input", "text", "icon", "image", "avatar", "badge",
     "statusbar", "header", "footer", "card", "list", "tab", "modal",
     "checkbox", "radio", "switch", "slider", "progress", "spinner" >>

screenPatterns ==
  << "page", "screen", "view", "layout", "container", "section",
     "home", "dashboard", "profile", "settings" >>

SizeLimit == 500

\* node.absoluteBoundingBox?.width
boxWidth(node) == IF node.hasBox THEN node.width ELSE Undefined

\* node.absoluteBoundingBox?.height
boxHeight(node) == IF node.hasBox THEN node.height ELSE Undefined

isAtomicComponent_SizeOr(node) ==
  LET name == toLowerCase(node.name)
      isComponent == node.type = "COMPONENT" \/ node.type = "INSTANCE"
      isAtomic == somePattern(atomicPatterns, name)
      isSmall == JsLess(boxWidth(node), SizeLimit)
                 \/ JsLess(boxHeight(node), SizeLimit)
  IN isComponent /\ (isAtomic \/ isSmall)

isAtomicComponent(node) ==
  LET name == toLowerCase(node.name)
      isComponent == node.type = "COMPONENT" \/ node.type = "INSTANCE"
      isAtomic == somePattern(atomicPatterns, name)
      isSmall == JsLess(boxWidth(node), SizeLimit)
                 /\ JsLess(boxHeight(node), SizeLimit)
  IN isComponent /\ (isAtomic \/ isSmall)

isScreenOrFrame_AnyType(node) ==
  LET name == toLowerCase(node.name)
      isScreen == somePattern(screenPatterns, name)
      isLarge == JsGreaterEq(boxWidth(node), SizeLimit)
                 \/ JsGreaterEq(boxHeight(node), SizeLimit)
  IN isScreen \/ isLarge

isScreenOrFrame_BothLarge(node) ==
  LET name == toLowerCase(node.name)
      isFrame == node.type = "FRAME"
      isScreen == somePattern(screenPatterns, name)
      isLarge == JsGreaterEq(boxWidth(node), SizeLimit)
                 /\ JsGreaterEq(boxHeight(node), SizeLimit)
  IN isFrame /\ (isScreen \/ isLarge)

isScreenOrFrame(node) ==
  LET name == toLowerCase(node.name)
      isFrame == node.type = "FRAME"
      isScreen == somePattern(screenPatterns, name)
      isLarge == JsGreaterEq(boxWidth(node), SizeLimit)
                 \/ JsGreaterEq(boxHeight(node), SizeLimit)
  IN isFrame /\ (isScreen \/ isLarge)

determineComponentCategory_IconFirst(node) ==
  LET name == toLowerCase(node.name)
  IN IF includes(name, "statusbar") THEN "STATUS_BAR"
     ELSE IF includes(name, "button") THEN "BUTTON"
     ELSE IF includes(name, "icon") THEN "ICON"
     ELSE IF includes(name, "text") THEN "TEXT"
     ELSE IF includes(name, "input") \/ includes(name, "textfield") THEN "INPUT"
     ELSE IF includes(name, "image") THEN "IMAGE"
     ELSE IF includes(name, "avatar") THEN "AVATAR"
     ELSE IF includes(name, "badge") THEN "BADGE"
     ELSE IF includes(name, "card") THEN "CARD"
     ELSE IF includes(name, "list") THEN "LIST"
     ELSE IF includes(name, "tab") THEN "TAB"
     ELSE IF includes(name, "modal") THEN "MODAL"
     ELSE "OTHER"

determineComponentCategory(node) ==
  LET name == toLowerCase(node.name)
  IN IF includes(name, "statusbar") THEN "STATUS_BAR"
     ELSE IF includes(name, "button") THEN "BUTTON"
     ELSE IF includes(name, "input") \/ includes(name, "textfield") THEN "INPUT"
     ELSE IF includes(name, "text") THEN "TEXT"
     ELSE IF includes(name, "icon") THEN "ICON"
     ELSE IF includes(name, "image") THEN "IMAGE"
     ELSE IF includes(name, "avatar") THEN "AVATAR"
     ELSE IF includes(name, "badge") THEN "BADGE"
     ELSE IF includes(name, "card") THEN "CARD"
     ELSE IF includes(name, "list") THEN "LIST"
     ELSE IF includes(name, "tab") THEN "TAB"
     ELSE IF includes(name, "modal") THEN "MODAL"
     ELSE "OTHER"

\* The record walk pushes to components.
ComponentRecord(node, parentPath) ==
  [ name |-> node.name,
    id |-> node.id,
    path |-> Append(parentPath, node.name),
    type |-> node.type,
    category |-> determineComponentCategory(node),
    description |-> node.description,
    width |-> boxWidth(node),
    height |-> boxHeight(node),
    children |-> IF node.hasChildren THEN Len(node.children) ELSE 0,
    styles |-> node.style ]

\* The record walk pushes to screens.
ScreenRecord(node) ==
  [ name |-> node.name,
    id |-> node.id,
    type |-> "SCREEN",
    width |-> boxWidth(node),
    height |-> boxHeight(node) ]

(***************************************************************************)
(* extractAllNestedComponents.                                             *)
(* acc holds the closure's two arrays, components and screens, and         *)
(* visited, the nodes walk was called on, in call order (a history of the  *)
(* calls; the code keeps no such list).                                    *)
(***************************************************************************)
\* The children walk recurses into: none when the field is absent.
childrenOf_Pruned(node) ==
  IF node.hasChildren /\ ~isAtomicComponent(node) THEN node.children ELSE <<>>

childrenOf_Reversed(node) ==
  IF node.hasChildren
  THEN [i \in 1..Len(node.children) |->
          node.children[Len(node.children) + 1 - i]]
  ELSE <<>>

childrenOf(node) == IF node.hasChildren THEN node.children ELSE <<>>

\* The if / else if of walk: at most one push per node.
classify(node, parentPath, acc) ==
  IF isAtomicComponent(node)
  THEN [acc EXCEPT !.components =
          Append(acc.components, ComponentRecord(node, parentPath))]
  ELSE IF isScreenOrFrame(node)
       THEN [acc EXCEPT !.screens = Append(acc.screens, ScreenRecord(node))]
       ELSE acc

RECURSIVE walk(_, _, _)
RECURSIVE forEachChild(_, _, _, _)

\* node.children.forEach(child => walk(child, [...parentPath, node.name]))
\* from child number i on.
forEachChild(kids, i, childPath, acc) ==
  IF i > Len(kids) THEN acc
  ELSE forEachChild(kids, i + 1, childPath, walk(kids[i], childPath, acc))

walk_SamePath(node, parentPath, acc) ==
  LET called == [acc EXCEPT !.visited = Append(acc.visited, node)]
      pushed == classify(node, parentPath, called)
  IN forEachChild(childrenOf(node), 1, parentPath, pushed)

\* walk = (node, parentPath = []) => { ... }
walk(node, parentPath, acc) ==
  LET called == [acc EXCEPT !.visited = Append(acc.visited, node)]
      pushed == classify(node, parentPath, called)
  IN forEachChild(childrenOf(node), 1, Append(parentPath, node.name), pushed)

extractAllNestedComponents(document) ==
  walk(document, <<>>, [components |-> <<>>, screens |-> <<>>, visited |-> <<>>])

(***************************************************************************)
(* Documents the document source may return.                               *)
(***************************************************************************)
NodeTypes == {"COMPONENT", "INSTANCE", "FRAME", "GROUP"}

\* Names of the single-node documents: every category keyword, the atomic
\* patterns without a category, screen patterns, names without any pattern,
\* and case variants.
SampleNames ==
  { "TextIcon", "IconButton", "MyTextField", "StatusBar Button", "SearchInput",
    "ICON", "image", "UserAvatar", "Badge", "ProductCard", "List", "Table",
    "Modal", "Header", "Footer", "CheckBox", "Radio", "Switch", "Slider",
    "Progress", "Spinner", "Box", "HomeScreen", "Settings Page", "",
    "IconTextButton", "TextField StatusBar" }

SampleSizes == {Undefined, 499, 500}

Label(name, type, hasBox, w, h) ==
  [ name |-> name, type |-> type, hasBox |-> hasBox, width |-> w,
    height |-> h, description |-> "", style |-> "style" ]

\* Every bounding box: absent, or with each of width and height a number or
\* missing.
SampleLabels ==
  { Label(n, t, TRUE, w, h) :
      n \in SampleNames, t \in NodeTypes, w \in SampleSizes, h \in SampleSizes }
  \cup { Label(n, t, FALSE, Undefined, Undefined) :
           n \in SampleNames, t \in NodeTypes }

\* Labels of the nodes of the larger trees: an atomic component by name, an
\* atomic component by size only, a screen and a node that is neither.
TreeLabels ==
  { Label("PrimaryButton", "COMPONENT", TRUE, 120, 40),
    Label("Thing", "INSTANCE", TRUE, 48, 48),
    Label("HomeScreen", "FRAME", TRUE, 800, 1200),
    Label("Group", "GROUP", FALSE, Undefined, Undefined) }

MkNode(label, hasChildren, kids) ==
  [ id |-> <<>>, name |-> label.name, type |-> label.type,
    hasBox |-> label.hasBox, width |-> label.width, height |-> label.height,
    description |-> label.description, style |-> label.style,
    hasChildren |-> hasChildren, children |-> kids ]

\* A leaf has no children field or an empty one.
Leaves(labels) ==
  { MkNode(l, hc, <<>>) : l \in labels, hc \in BOOLEAN }

RECURSIVE Trees(_)
RECURSIVE Forests(_)

\* The trees of exactly n nodes over TreeLabels.
Trees(n) ==
  IF n = 1 THEN Leaves(TreeLabels)
  ELSE { MkNode(l, TRUE, f) : l \in TreeLabels, f \in Forests(n - 1) }

\* The non-empty sequences of trees of m nodes in all.
Forests(m) ==
  UNION { { <<t>> \o f : t \in Trees(k),
                         f \in (IF m = k THEN {<<>>} ELSE Forests(m - k)) } :
          k \in 1..m }

\* Node ids are unique in a document: a node's id is its position, the child
\* numbers on the way from the root.
RECURSIVE WithIds(_, _)
WithIds(t, pos) ==
  [t EXCEPT !.id = pos,
            !.children = [i \in 1..Len(t.children) |->
                            WithIds(t.children[i], Append(pos, i))]]

AllDocuments ==
  { WithIds(t, <<>>) :
      t \in Leaves(SampleLabels) \cup UNION { Trees(n) : n \in 2..MaxNodes } }

\* The documents of the handler runs: the screen with two components, a
\* document without components, and an atomic component nested in another.
ScenarioDocuments ==
  { WithIds(
      MkNode(Label("HomeScreen", "FRAME", TRUE, 800, 1200), TRUE,
        << MkNode(Label("PrimaryButton", "COMPONENT", TRUE, 120, 40), FALSE, <<>>),
           MkNode(Label("UserAvatar", "COMPONENT", TRUE, 48, 48), FALSE, <<>>) >>),
      <<>>),
    WithIds(MkNode(Label("Group", "GROUP", FALSE, Undefined, Undefined), TRUE, <<>>),
            <<>>),
    WithIds(
      MkNode(Label("ProductCard", "COMPONENT", TRUE, 300, 200), TRUE,
        << MkNode(Label("Star Icon", "INSTANCE", TRUE, 16, 16), TRUE, <<>>) >>),
      <<>>) }

\* name, lastModified and version of the file the document source returns.
FileInfos ==
  { [name |-> "Design", lastModified |-> "2024-05-01", version |-> "41"],
    [name |-> "Draft", lastModified |-> "2024-06-02", version |-> "42"] }

\* err.response?.status of a failed request: an HTTP status, or none when
\* the request got no response (or the failure is not an HTTP error).
ErrorStatuses == {Undefined, 401, 404}

(***************************************************************************)
(* The registry source and the oracle.                                     *)
(***************************************************************************)
File(path) == [path |-> path]

\* The non-empty pages of the repository tree listing.
NonEmptyPages ==
  { << File("README.md") >>,
    << File("src/registry.ts") >>,
    << File("packages/src/registry.ts"), File("src/registry.ts") >>,
    << File("src/registry.ts"), File("packages/customer/src/registry.ts") >>,
    << File("index.ts"), File("packages/src/customer/vdlComponents/registry.ts") >> }

\* The raw text of the registry file.
RegistryTexts ==
  { "",
    "export { PRIMARYBUTTON, Badge }",
    "import UserAvatar from './useravatar'; register(primaryButton)" }

possibleRegistryPaths ==
  << "packages/customer/src/registry.ts",
     "packages/src/customer/vdlComponents/registry.ts",
     "packages/src/registry.ts",
     "src/registry.ts" >>

NoFile == [found |-> FALSE, path |-> ""]

\* allFiles.find(file => file.path === path): the first such file, if any.
find(files, path) ==
  IF \E i \in 1..Len(files) : files[i].path = path
  THEN [found |-> TRUE,
        path |-> files[CHOOSE i \in 1..Len(files) :
                         /\ files[i].path = path
                         /\ \A j \in 1..(i - 1) : files[j].path # path].path]
  ELSE NoFile

\* The loop over possibleRegistryPaths from path number i on: the file of
\* the first path that is in the listing.
RECURSIVE findRegistryFile(_, _)
findRegistryFile(files, i) ==
  IF i > Len(possibleRegistryPaths) THEN NoFile
  ELSE IF find(files, possibleRegistryPaths[i]).found
       THEN find(files, possibleRegistryPaths[i])
       ELSE findRegistryFile(files, i + 1)

\* The names of a list of component records, without repetition, in order.
RECURSIVE distinctNames(_)
distinctNames(records) ==
  IF records = <<>> THEN <<>>
  ELSE LET rest == distinctNames(Tail(records))
       IN IF \E i \in 1..Len(rest) : rest[i] = Head(records).name
          THEN rest ELSE <<Head(records).name>> \o rest

\* The names of set S in the order of sequence pool.
InOrder(pool, S) == SelectSeq(pool, LAMBDA n : n \in S)

\* What JSON.parse of the oracle's answer may be for component names
\* `names`: any subset of the names (and of a name that is no component's)
\* in each list, or an answer without an array-valued existing or new.
Analyses(names) ==
  LET all == { names[i] : i \in 1..Len(names) }
      match(n) == [originalName |-> n, matchedName |-> toLowerCase(n)]
  IN { [ hasExisting |-> TRUE,
         existing |-> LET chosen == InOrder(names, E)
                      IN [i \in 1..Len(chosen) |-> match(chosen[i])],
         hasNew |-> TRUE,
         new |-> InOrder(names, N) ] : E \in SUBSET all, N \in SUBSET all }
     \cup { [ hasExisting |-> TRUE, existing |-> << match("Unknown") >>,
              hasNew |-> TRUE, new |-> names \o << "Unknown" >> ] }
     \cup { [ hasExisting |-> he, existing |-> <<>>, hasNew |-> hn, new |-> <<>> ] :
              he \in BOOLEAN, hn \in {FALSE} }
     \cup { [ hasExisting |-> FALSE, existing |-> <<>>, hasNew |-> TRUE,
              new |-> names ] }

(***************************************************************************)
(* State.                                                                  *)
(***************************************************************************)
VARIABLES
  pc,                \* where the handler of the request in flight stands
  req,               \* the request: endpoint and body
  fileInfo,          \* name, lastModified, version of fileResponse.data
  document,          \* nodeData, the document extraction ran on
  atomicComponents,  \* extractAllNestedComponents(nodeData).atomicComponents
  screens,           \* extractAllNestedComponents(nodeData).screens
  visited,           \* the nodes walk was called on, in call order
  page,              \* parse-and-check: the listing page being fetched
  allFiles,          \* parse-and-check: the files listed so far
  registryFile,      \* the registry file found in the listing
  registryContent,   \* the raw text of the registry file
  response,          \* the response sent for the request in flight
  calls,             \* the requests sent to the sources and the oracle
  received,          \* the listing pages the registry source answered with
  failure            \* which request of the handler failed, and its status

vars ==
  << pc, req, fileInfo, document, atomicComponents, screens, visited, page,
     allFiles, registryFile, registryContent, response, calls, received,
     failure >>

NoRequest ==
  [endpoint |-> "none", nodeId |-> FALSE, componentName |-> "",
   figmaComponents |-> <<>>]

NoFileInfo == [name |-> "", lastModified |-> "", version |-> ""]

NoDocument == WithIds(MkNode(Label("", "NONE", FALSE, Undefined, Undefined), FALSE, <<>>), <<>>)

NoResponse == [kind |-> "none", status |-> 0]

NoFailure == [at |-> "none", status |-> Undefined]

Init ==
  /\ pc = "idle"
  /\ req = NoRequest
  /\ fileInfo = NoFileInfo
  /\ document = NoDocument
  /\ atomicComponents = <<>>
  /\ screens = <<>>
  /\ visited = <<>>
  /\ page = 1
  /\ allFiles = <<>>
  /\ registryFile = NoFile
  /\ registryContent = ""
  /\ response = NoResponse
  /\ calls = <<>>
  /\ received = <<>>
  /\ failure = NoFailure

extractionVars == << document, atomicComponents, screens, visited >>
registryVars == << page, allFiles, registryFile, registryContent, received >>

(***************************************************************************)
(* Responses: one definition per res.json call.                            *)
(***************************************************************************)
\* err.response?.status || 500
statusOr500(status) == IF status = Undefined THEN 500 ELSE status

\* /api/parse-figma, success.
parseFigmaSuccess(components, scr, info) ==
  [ kind |-> "parsed", status |-> 200, success |-> TRUE,
    components |-> components, screens |-> scr, fileInfo |-> info ]

\* /api/parse-figma, catch.
parseFigmaError(errStatus) ==
  [ kind |-> "figmaError", status |-> statusOr500(errStatus),
    error |-> "Figma parsing failed", details |-> [status |-> errStatus] ]

parseAndCheckError_EmptySuccess(errStatus) ==
  [ kind |-> "error", status |-> 200, success |-> TRUE,
    components |-> [existing |-> <<>>, new |-> <<>>], screens |-> <<>> ]

\* /api/parse-and-check, outer catch.
parseAndCheckError(errStatus) ==
  [ kind |-> "error", status |-> 500, error |-> "Parse and check failed" ]

registryNotFound_NoComponents(components, scr, info, files) ==
  [ kind |-> "notFound", status |-> 200, success |-> TRUE,
    message |-> "Registry file not found in repository",
    availablePaths |-> pathsOf(files),
    components |-> [existing |-> <<>>, new |-> <<>>],
    screens |-> scr, fileInfo |-> info ]

\* /api/parse-and-check, no registry file in the listing.
registryNotFound(components, scr, info, files) ==
  [ kind |-> "notFound", status |-> 200, success |-> TRUE,
    message |-> "Registry file not found in repository",
    availablePaths |-> pathsOf(files),
    components |-> [existing |-> <<>>, new |-> components],
    screens |-> scr, fileInfo |-> info ]

\* /api/parse-and-check, catch (gitlabError).
gitlabFailed(components, scr, info, errStatus) ==
  [ kind |-> "gitlabError", status |-> 200, success |-> TRUE,
    message |-> "GitLab API access failed, returning all components as new",
    components |-> [existing |-> <<>>, new |-> components],
    screens |-> scr, fileInfo |-> info,
    gitlabError |-> [status |-> errStatus] ]

\* atomicComponents.filter(c => analysis.existing.some(e => e.originalName === c.name))
existingComponentsOf(components, analysis) ==
  SelectSeq(components,
         LAMBDA c : \E i \in 1..Len(analysis.existing) :
                       analysis.existing[i].originalName = c.name)

\* atomicComponents.filter(c => analysis.new.some(n => n === c.name))
newComponentsOf(components, analysis) ==
  SelectSeq(components,
         LAMBDA c : \E i \in 1..Len(analysis.new) : analysis.new[i] = c.name)

filtersThrow_Never(components, analysis) == FALSE

\* Whether the two filters throw: a filter calls .some of a field that is
\* no array as soon as there is a component to test.
filtersThrow(components, analysis) ==
  components # <<>> /\ (~analysis.hasExisting \/ ~analysis.hasNew)

checkedReport_MatchedNames(components, scr, info, analysis) ==
  [ kind |-> "checked", status |-> 200, success |-> TRUE,
    message |-> "Components parsed and checked successfully",
    components |->
      [ existing |->
          LET kept == existingComponentsOf(components, analysis)
          IN [ i \in 1..Len(kept) |->
                 [kept[i] EXCEPT !.name = toLowerCase(kept[i].name)] ],
        new |-> newComponentsOf(components, analysis),
        analysis |-> analysis ],
    screens |-> scr, fileInfo |-> info ]

\* /api/parse-and-check, the diff.
checkedReport(components, scr, info, analysis) ==
  [ kind |-> "checked", status |-> 200, success |-> TRUE,
    message |-> "Components parsed and checked successfully",
    components |-> [ existing |-> existingComponentsOf(components, analysis),
                     new |-> newComponentsOf(components, analysis),
                     analysis |-> analysis ],
    screens |-> scr, fileInfo |-> info ]

inRegistry_Swapped(component, content) ==
  includes(toLowerCase(component.name), toLowerCase(content))

\* registryContent.toLowerCase().includes(component.name.toLowerCase())
inRegistry(component, content) ==
  includes(toLowerCase(content), toLowerCase(component.name))

newComponentsFilter_CaseSensitive(figmaComponents, content) ==
  SelectSeq(figmaComponents, LAMBDA c : ~includes(content, c.name))

\* figmaComponents.filter(component => !registryContent.toLowerCase()
\*   .includes(component.name.toLowerCase()))
newComponentsFilter(figmaComponents, content) ==
  SelectSeq(figmaComponents, LAMBDA c : ~inRegistry(c, content))

\* /api/check-component, no registry file in the tree.
checkComponentNotFound(figmaComponents, files) ==
  [ kind |-> "ccNotFound", status |-> 200, exists |-> FALSE,
    message |-> "Registry file not found in repository",
    files |-> pathsOf(files),
    newComponents |-> figmaComponents ]

\* /api/check-component, the registry file read.
checkComponentFound(componentName, figmaComponents, file, content) ==
  LET componentExists == includes(content, componentName)
  IN [ kind |-> "ccChecked", status |-> 200, exists |-> componentExists,
       message |-> IF componentExists THEN "Component found in registry"
                   ELSE "Component not found in registry",
       registryPath |-> file.path,
       newComponents |->
         LET new == newComponentsFilter(figmaComponents, content)
         IN [ i \in 1..Len(new) |->
                [ name |-> new[i].name, category |-> new[i].category,
                  description |-> new[i].description,
                  width |-> new[i].width, height |-> new[i].height ] ] ]

\* /api/check-component, catch.
checkComponentError ==
  [ kind |-> "ccError", status |-> 500, error |-> "Component check failed" ]

(***************************************************************************)
(* Requests.                                                               *)
(***************************************************************************)
Call(to, what, n, names) == [to |-> to, what |-> what, page |-> n, names |-> names]

\* componentName of a check-component request.
ComponentNames == {"Badge", "PrimaryButton"}

\* The component records a check-component request may carry.
FigmaComponentPool ==
  { ComponentRecord(WithIds(MkNode(l, FALSE, <<>>), <<>>), <<>>) :
      l \in { Label("PrimaryButton", "COMPONENT", TRUE, 120, 40),
              Label("UserAvatar", "COMPONENT", TRUE, 48, 48),
              Label("Toggle", "INSTANCE", TRUE, 30, 20) } }

FigmaComponentLists ==
  UNION { [1..n -> FigmaComponentPool] : n \in 0..MaxFigmaComponents }

\* A request to /api/parse-figma or /api/parse-and-check arrives: the
\* handler starts with fresh locals and requests the file.
ReceiveParse(endpoints) ==
  /\ pc \in {"idle", "done"}
  /\ \E e \in endpoints, n \in BOOLEAN :
       req' = [endpoint |-> e, nodeId |-> n, componentName |-> "",
               figmaComponents |-> <<>>]
  /\ pc' = "figmaFile"
  /\ calls' = << Call("figma", "file", 0, <<>>) >>
  /\ fileInfo' = NoFileInfo
  /\ document' = NoDocument
  /\ atomicComponents' = <<>>
  /\ screens' = <<>>
  /\ visited' = <<>>
  /\ page' = 1
  /\ allFiles' = <<>>
  /\ received' = <<>>
  /\ registryFile' = NoFile
  /\ registryContent' = ""
  /\ response' = NoResponse
  /\ failure' = NoFailure

\* A request to /api/check-component arrives: the handler requests the
\* repository tree.
ReceiveCheckComponent ==
  /\ pc \in {"idle", "done"}
  /\ \E cn \in ComponentNames, fc \in FigmaComponentLists :
       req' = [endpoint |-> "check-component", nodeId |-> FALSE,
               componentName |-> cn, figmaComponents |-> fc]
  /\ pc' = "ccTree"
  /\ calls' = << Call("gitlab", "tree", 0, <<>>) >>
  /\ fileInfo' = NoFileInfo
  /\ document' = NoDocument
  /\ atomicComponents' = <<>>
  /\ screens' = <<>>
  /\ visited' = <<>>
  /\ page' = 1
  /\ allFiles' = <<>>
  /\ received' = <<>>
  /\ registryFile' = NoFile
  /\ registryContent' = ""
  /\ response' = NoResponse
  /\ failure' = NoFailure

\* From the document on: extraction, then the response of parse-figma or the
\* first listing request of parse-and-check.
Extract(d, info) ==
  LET r == extractAllNestedComponents(d)
  IN /\ fileInfo' = info
     /\ document' = d
     /\ atomicComponents' = r.components
     /\ screens' = r.screens
     /\ visited' = r.visited
     /\ UNCHANGED << req, registryFile, registryContent, failure >>
     /\ page' = 1
     /\ allFiles' = <<>>
     /\ received' = <<>>
     /\ IF req.endpoint = "parse-figma"
        THEN /\ response' = parseFigmaSuccess(r.components, r.screens, info)
             /\ pc' = "done"
             /\ UNCHANGED calls
        ELSE /\ pc' = "tree"
             /\ calls' = Append(calls, Call("gitlab", "tree", 1, <<>>))
             /\ UNCHANGED response

\* The file arrives and no nodeId was given: its document is the one parsed.
FigmaFileOk(documents) ==
  /\ pc = "figmaFile"
  /\ ~req.nodeId
  /\ \E info \in FileInfos, d \in documents : Extract(d, info)

\* The file arrives and a nodeId was given: the node is requested (the
\* file's own document is never read on this path).
FigmaFileOkThenNode ==
  /\ pc = "figmaFile"
  /\ req.nodeId
  /\ \E info \in FileInfos : fileInfo' = info
  /\ pc' = "figmaNode"
  /\ calls' = Append(calls, Call("figma", "node", 0, <<>>))
  /\ UNCHANGED << req, response, failure >>
  /\ UNCHANGED extractionVars
  /\ UNCHANGED registryVars

\* The node arrives: its document is the one parsed.
FigmaNodeOk(documents) ==
  /\ pc = "figmaNode"
  /\ \E d \in documents : Extract(d, fileInfo)

\* A document-source request fails (or its answer has no document).
FigmaFails ==
  /\ pc \in {"figmaFile", "figmaNode"}
  /\ \E st \in ErrorStatuses :
       /\ failure' = [at |-> "figma", status |-> st]
       /\ response' = IF req.endpoint = "parse-figma"
                      THEN parseFigmaError(st)
                      ELSE parseAndCheckError(st)
  /\ pc' = "done"
  /\ UNCHANGED << req, fileInfo, calls >>
  /\ UNCHANGED extractionVars
  /\ UNCHANGED registryVars

TreePageNonEmpty_Overwrite ==
  /\ pc = "tree"
  /\ page <= MaxPages
  /\ \E data \in NonEmptyPages :
       /\ allFiles' = data
       /\ received' = Append(received, data)
  /\ page' = page + 1
  /\ calls' = Append(calls, Call("gitlab", "tree", page + 1, <<>>))
  /\ UNCHANGED << pc, req, fileInfo, registryFile, registryContent, response,
                  failure >>
  /\ UNCHANGED extractionVars

\* parse-and-check: a non-empty listing page arrives; the next is requested.
TreePageNonEmpty ==
  /\ pc = "tree"
  /\ page <= MaxPages
  /\ \E data \in NonEmptyPages :
       /\ allFiles' = allFiles \o data
       /\ received' = Append(received, data)
  /\ page' = page + 1
  /\ calls' = Append(calls, Call("gitlab", "tree", page + 1, <<>>))
  /\ UNCHANGED << pc, req, fileInfo, registryFile, registryContent, response,
                  failure >>
  /\ UNCHANGED extractionVars

\* parse-and-check: an empty listing page arrives; the loop ends and the
\* registry file is looked up, then answered as missing or requested.
TreePageEmpty ==
  /\ pc = "tree"
  /\ LET f == findRegistryFile(allFiles, 1)
     IN /\ registryFile' = f
        /\ IF ~f.found
           THEN /\ response' = registryNotFound(atomicComponents, screens,
                                                fileInfo, allFiles)
                /\ pc' = "done"
                /\ UNCHANGED calls
           ELSE /\ pc' = "content"
                /\ calls' = Append(calls, Call("gitlab", "raw", 0, <<>>))
                /\ UNCHANGED response
  /\ received' = Append(received, <<>>)
  /\ UNCHANGED << req, fileInfo, page, allFiles, registryContent, failure >>
  /\ UNCHANGED extractionVars

\* parse-and-check: a listing or content request fails.
RegistryRequestFails ==
  /\ pc \in {"tree", "content"}
  /\ \E st \in ErrorStatuses :
       /\ failure' = [at |-> "gitlab", status |-> st]
       /\ response' = gitlabFailed(atomicComponents, screens, fileInfo, st)
  /\ pc' = "done"
  /\ UNCHANGED << req, fileInfo, calls >>
  /\ UNCHANGED extractionVars
  /\ UNCHANGED registryVars

ContentOk_Prefiltered ==
  /\ pc = "content"
  /\ \E text \in RegistryTexts :
       /\ registryContent' = text
       /\ calls' = Append(calls, Call("openai", "chat", 0,
                      namesOf(newComponentsFilter(atomicComponents, text))))
  /\ pc' = "oracle"
  /\ UNCHANGED << req, fileInfo, page, allFiles, registryFile, response,
                  received, failure >>
  /\ UNCHANGED extractionVars

\* parse-and-check: the registry text arrives; the oracle is asked about
\* all component names.
ContentOk ==
  /\ pc = "content"
  /\ \E text \in RegistryTexts : registryContent' = text
  /\ pc' = "oracle"
  /\ calls' = Append(calls, Call("openai", "chat", 0,
                                 namesOf(atomicComponents)))
  /\ UNCHANGED << req, fileInfo, page, allFiles, registryFile, response,
                  received, failure >>
  /\ UNCHANGED extractionVars

\* parse-and-check: the oracle's answer parses as JSON; the diff is
\* reported, unless filtering throws, which the inner catch answers.
OracleAnswers ==
  /\ pc = "oracle"
  /\ \E analysis \in Analyses(distinctNames(atomicComponents)) :
       IF filtersThrow(atomicComponents, analysis)
       THEN /\ failure' = [at |-> "analysis", status |-> Undefined]
            /\ response' = gitlabFailed(atomicComponents, screens, fileInfo,
                                        Undefined)
       ELSE /\ failure' = failure
            /\ response' = checkedReport(atomicComponents, screens, fileInfo,
                                         analysis)
  /\ pc' = "done"
  /\ UNCHANGED << req, fileInfo, calls >>
  /\ UNCHANGED extractionVars
  /\ UNCHANGED registryVars

\* parse-and-check: the oracle call throws or its answer is no JSON.
OracleFails ==
  /\ pc = "oracle"
  /\ \E st \in ErrorStatuses :
       /\ failure' = [at |-> "oracle", status |-> st]
       /\ response' = gitlabFailed(atomicComponents, screens, fileInfo, st)
  /\ pc' = "done"
  /\ UNCHANGED << req, fileInfo, calls >>
  /\ UNCHANGED extractionVars
  /\ UNCHANGED registryVars

checkComponentRegistryPath == "packages/src/customer/vdlComponents/registry.ts"

\* check-component: the repository tree arrives.
CheckTreeOk ==
  /\ pc = "ccTree"
  /\ \E data \in NonEmptyPages \cup {<<>>} :
       LET f == find(data, checkComponentRegistryPath)
       IN /\ allFiles' = data
          /\ received' = << data >>
          /\ registryFile' = f
          /\ IF ~f.found
             THEN /\ response' = checkComponentNotFound(req.figmaComponents, data)
                  /\ pc' = "done"
                  /\ UNCHANGED calls
             ELSE /\ pc' = "ccContent"
                  /\ calls' = Append(calls, Call("gitlab", "raw", 0, <<>>))
                  /\ UNCHANGED response
  /\ UNCHANGED << req, fileInfo, page, registryContent, failure >>
  /\ UNCHANGED extractionVars

\* check-component: the registry text arrives.
CheckContentOk ==
  /\ pc = "ccContent"
  /\ \E text \in RegistryTexts :
       /\ registryContent' = text
       /\ response' = checkComponentFound(req.componentName, req.figmaComponents,
                                          registryFile, text)
  /\ pc' = "done"
  /\ UNCHANGED << req, fileInfo, page, allFiles, registryFile, calls,
                  received, failure >>
  /\ UNCHANGED extractionVars

\* check-component: a registry-source request fails.
CheckFails ==
  /\ pc \in {"ccTree", "ccContent"}
  /\ response' = checkComponentError
  /\ \E st \in ErrorStatuses : failure' = [at |-> "gitlab", status |-> st]
  /\ pc' = "done"
  /\ UNCHANGED << req, fileInfo, calls >>
  /\ UNCHANGED extractionVars
  /\ UNCHANGED registryVars

(***************************************************************************)
(* Specifications.                                                         *)
(***************************************************************************)
\* The three endpoints, on the scenario documents.
Next ==
  \/ ReceiveParse({"parse-figma", "parse-and-check"})
  \/ ReceiveCheckComponent
  \/ FigmaFileOk(ScenarioDocuments)
  \/ FigmaFileOkThenNode
  \/ FigmaNodeOk(ScenarioDocuments)
  \/ FigmaFails
  \/ TreePageNonEmpty
  \/ TreePageEmpty
  \/ RegistryRequestFails
  \/ ContentOk
  \/ OracleAnswers
  \/ OracleFails
  \/ CheckTreeOk
  \/ CheckContentOk
  \/ CheckFails

Spec == Init /\ [][Next]_vars

\* /api/parse-figma on every generated document: the classifier and the
\* walk on all their inputs.
NextExtract ==
  \/ ReceiveParse({"parse-figma"})
  \/ FigmaFileOk(AllDocuments)
  \/ FigmaFileOkThenNode
  \/ FigmaNodeOk(AllDocuments)
  \/ FigmaFails

SpecExtract == Init /\ [][NextExtract]_vars

(***************************************************************************)
(* Properties.                                                             *)
(***************************************************************************)
\* How many records of seq carry the id.
Count(seq, id) == Cardinality({ i \in 1..Len(seq) : seq[i].id = id })

\* The request in flight was answered with the diff of parse-and-check.
DiffReported == pc = "done" /\ response.kind = "checked"

\* name is the originalName of an entry of analysis.existing.
OracleSaysExisting(analysis, name) ==
  \E i \in 1..Len(analysis.existing) : analysis.existing[i].originalName = name

\* name is an entry of analysis.new.
OracleSaysNew(analysis, name) ==
  \E i \in 1..Len(analysis.new) : analysis.new[i] = name

\* C1: in the diff report of parse-and-check, whatever the oracle answered,
\* every atomic component is in exactly one of components.existing and
\* components.new: the lists are disjoint and their lengths add up to the
\* length of the catalogue.  (The code filters by the oracle's lists without
\* validating them, so this fails.)
C1_PartitionForAnyOracleOutput ==
  DiffReported =>
    LET existing == response.components.existing
        new == response.components.new
    IN /\ Len(existing) + Len(new) = Len(atomicComponents)
       /\ \A i \in 1..Len(atomicComponents) :
            Count(existing, atomicComponents[i].id)
              + Count(new, atomicComponents[i].id) = 1

\* C2: in the diff report of parse-and-check, a component whose name the
\* oracle put in neither list, or in both, is in components.new and not in
\* components.existing.  (The code does not validate the oracle's output, so
\* this fails.)
C2_UnresolvedNamesAreNew ==
  DiffReported =>
    \A i \in 1..Len(atomicComponents) :
      LET c == atomicComponents[i]
          analysis == response.components.analysis
      IN (OracleSaysExisting(analysis, c.name) = OracleSaysNew(analysis, c.name))
           => /\ Count(response.components.new, c.id) = 1
              /\ Count(response.components.existing, c.id) = 0

\* The paths of the files listed.
ListedPaths == { allFiles[i].path : i \in 1..Len(allFiles) }

\* parse-and-check could not obtain the registry content: a registry-source
\* request failed, or the listing completed without any candidate path.
RegistryUnavailable ==
  /\ pc = "done"
  /\ req.endpoint = "parse-and-check"
  /\ \/ failure.at = "gitlab"
     \/ /\ failure.at = "none"
        /\ calls[Len(calls)].what = "tree"
        /\ \A i \in 1..Len(possibleRegistryPaths) :
             possibleRegistryPaths[i] \notin ListedPaths

\* C3: when parse-and-check cannot obtain the registry content, the report
\* is a success report with components.existing empty and components.new the
\* whole catalogue, and it says that no registry check occurred.
C3_RegistryUnavailableAllNew ==
  RegistryUnavailable =>
    /\ response.status = 200
    /\ response.success
    /\ response.components.existing = <<>>
    /\ response.components.new = atomicComponents
    /\ \/ response.message = "Registry file not found in repository"
       \/ /\ response.message
               = "GitLab API access failed, returning all components as new"
          /\ "gitlabError" \in DOMAIN response

\* C3 witness: the listing of a document with two components completed with
\* files but no registry file among them.
C3_Witness ==
  /\ RegistryUnavailable
  /\ failure.at = "none"
  /\ allFiles # <<>>
  /\ Len(atomicComponents) = 2

\* The request in flight was answered by parse-figma with the extraction.
Parsed == pc = "done" /\ response.kind = "parsed"

\* The lower-cased name of the node contains one of the patterns.
NameHasPattern(node, patterns) ==
  \E i \in 1..Len(patterns) : includes(toLowerCase(node.name), patterns[i])

\* Both dimensions of the bounding box are present and below the limit.
BothPresentAndSmall(node) ==
  /\ node.hasBox
  /\ node.width # Undefined /\ node.width < SizeLimit
  /\ node.height # Undefined /\ node.height < SizeLimit

\* A dimension of the bounding box is present and at least the limit.
SomePresentAndLarge(node) ==
  /\ node.hasBox
  /\ \/ node.width # Undefined /\ node.width >= SizeLimit
     \/ node.height # Undefined /\ node.height >= SizeLimit

\* C4: every node walk visited pushed one record to components, or one to
\* screens, or none, never one to each; a COMPONENT or INSTANCE node has no
\* ScreenRecord, and a node satisfying both predicates is recorded as an
\* atomic component only.
C4_OneOutcomePerNode ==
  \A i \in 1..Len(visited) :
    LET node == visited[i]
        c == Count(atomicComponents, node.id)
        s == Count(screens, node.id)
    IN /\ c + s <= 1
       /\ node.type \in {"COMPONENT", "INSTANCE"} => s = 0
       /\ isAtomicComponent(node) /\ isScreenOrFrame(node) => c = 1 /\ s = 0

\* C4 witness: a COMPONENT that is atomic by its size and has a screen name
\* was recorded as an atomic component and got no ScreenRecord.
C4_Witness ==
  /\ Parsed
  /\ Len(visited) = 1
  /\ visited[1].type = "COMPONENT"
  /\ NameHasPattern(visited[1], screenPatterns)
  /\ ~NameHasPattern(visited[1], atomicPatterns)
  /\ Count(atomicComponents, visited[1].id) = 1
  /\ screens = <<>>

\* C5: a visited node has a ComponentRecord iff its type is COMPONENT or
\* INSTANCE and its lower-cased name contains an atomic pattern or both its
\* width and height are present and below 500; a missing bounding box or
\* dimension makes the size condition false.
C5_AtomicIffTypeAndPatternOrSmall ==
  \A i \in 1..Len(visited) :
    LET node == visited[i]
    IN (Count(atomicComponents, node.id) = 1)
         <=> /\ node.type \in {"COMPONENT", "INSTANCE"}
             /\ \/ NameHasPattern(node, atomicPatterns)
                \/ BothPresentAndSmall(node)

\* C5 witness: a COMPONENT without atomic pattern whose box has a small
\* width and no height was visited and is no atomic component.
C5_Witness ==
  /\ Parsed
  /\ Len(visited) = 1
  /\ visited[1].type = "COMPONENT"
  /\ ~NameHasPattern(visited[1], atomicPatterns)
  /\ visited[1].hasBox
  /\ visited[1].width = 499
  /\ visited[1].height = Undefined
  /\ atomicComponents = <<>>

\* C6: a visited node that is no atomic component has a ScreenRecord iff its
\* type is FRAME and its lower-cased name contains a screen pattern or its
\* width or its height is present and at least 500; every ScreenRecord has
\* type SCREEN.
C6_ScreenIffFrameAndPatternOrLarge ==
  /\ \A i \in 1..Len(visited) :
       LET node == visited[i]
       IN Count(atomicComponents, node.id) = 0 =>
            ((Count(screens, node.id) = 1)
               <=> /\ node.type = "FRAME"
                   /\ \/ NameHasPattern(node, screenPatterns)
                      \/ SomePresentAndLarge(node))
  /\ \A j \in 1..Len(screens) : screens[j].type = "SCREEN"

\* C6 witness: a FRAME without screen pattern whose box has no width and a
\* height of 500 got a ScreenRecord.
C6_Witness ==
  /\ Parsed
  /\ Len(visited) = 1
  /\ visited[1].type = "FRAME"
  /\ ~NameHasPattern(visited[1], screenPatterns)
  /\ visited[1].hasBox
  /\ visited[1].width = Undefined
  /\ visited[1].height = 500
  /\ Len(screens) = 1
  /\ screens[1].type = "SCREEN"

\* The category checks in their order: the keywords of each and its result.
CategoryOrder ==
  << << {"statusbar"}, "STATUS_BAR" >>,
     << {"button"}, "BUTTON" >>,
     << {"input", "textfield"}, "INPUT" >>,
     << {"text"}, "TEXT" >>,
     << {"icon"}, "ICON" >>,
     << {"image"}, "IMAGE" >>,
     << {"avatar"}, "AVATAR" >>,
     << {"badge"}, "BADGE" >>,
     << {"card"}, "CARD" >>,
     << {"list"}, "LIST" >>,
     << {"tab"}, "TAB" >>,
     << {"modal"}, "MODAL" >> >>

\* Check number k matches the lower-cased name.
CheckMatches(k, name) ==
  \E w \in CategoryOrder[k][1] : includes(toLowerCase(name), w)

\* The result of the first matching check, OTHER when none matches.
FirstMatch(name) ==
  IF \E k \in 1..Len(CategoryOrder) : CheckMatches(k, name)
  THEN CategoryOrder[CHOOSE k \in 1..Len(CategoryOrder) :
                       /\ CheckMatches(k, name)
                       /\ \A j \in 1..(k - 1) : ~CheckMatches(j, name)][2]
  ELSE "OTHER"

\* The atomic patterns that have no category check.
UncategorisedPatterns ==
  << "header", "footer", "checkbox", "radio", "switch", "slider", "progress",
     "spinner" >>

\* C7: the category of every ComponentRecord is the result of the first
\* matching check in the order statusbar, button, input|textfield, text,
\* icon, image, avatar, badge, card, list, tab, modal, and OTHER when none
\* matches: TextIcon is TEXT, IconButton is BUTTON, a name with textfield
\* (and no earlier keyword) is INPUT, and a component that is atomic only by
\* header, footer, checkbox, radio, switch, slider, progress, spinner or by
\* its size is OTHER.
C7_CategoryIsFirstMatch ==
  \A i \in 1..Len(atomicComponents) :
    LET r == atomicComponents[i]
        lower == toLowerCase(r.name)
    IN /\ r.category = FirstMatch(r.name)
       /\ r.name = "TextIcon" => r.category = "TEXT"
       /\ r.name = "IconButton" => r.category = "BUTTON"
       /\ (includes(lower, "text") /\ includes(lower, "icon")
             /\ ~includes(lower, "statusbar") /\ ~includes(lower, "button")
             /\ ~includes(lower, "input") /\ ~includes(lower, "textfield"))
            => r.category = "TEXT"
       /\ (includes(lower, "textfield")
             /\ ~includes(lower, "statusbar") /\ ~includes(lower, "button"))
            => r.category = "INPUT"
       /\ (\A k \in 1..Len(atomicPatterns) :
             includes(lower, atomicPatterns[k])
               => \E u \in 1..Len(UncategorisedPatterns) :
                    atomicPatterns[k] = UncategorisedPatterns[u])
            => r.category = "OTHER"

\* C7 witness: TextIcon was recorded as TEXT.
C7_Witness ==
  /\ Parsed
  /\ Len(atomicComponents) = 1
  /\ atomicComponents[1].name = "TextIcon"
  /\ atomicComponents[1].category = "TEXT"

\* The ids of the nodes of the tree: each node's and its descendants'.
RECURSIVE NodeIds(_)
NodeIds(node) ==
  {node.id} \cup UNION { NodeIds(node.children[i]) : i \in 1..Len(node.children) }

\* The nodes of the tree.
RECURSIVE Nodes(_)
Nodes(node) ==
  {node} \cup UNION { Nodes(node.children[i]) : i \in 1..Len(node.children) }

\* Position a comes before position b in depth-first pre-order: a is a
\* proper ancestor of b, or at the first child number where the two differ
\* a takes the earlier sibling.
PreOrderBefore(a, b) ==
  \/ /\ Len(a) < Len(b)
     /\ SubSeq(b, 1, Len(a)) = a
  \/ \E k \in 1..Len(a) :
       /\ k <= Len(b)
       /\ SubSeq(a, 1, k - 1) = SubSeq(b, 1, k - 1)
       /\ a[k] < b[k]

\* The records of seq are in pre-order of their nodes.
InPreOrder(seq) ==
  \A i, j \in 1..Len(seq) : i < j => PreOrderBefore(seq[i].id, seq[j].id)

\* C8: walk(document) visits every node of the tree exactly once, in
\* depth-first pre-order (a parent before its descendants, siblings in their
\* order), a node without children field or with an empty one being a leaf;
\* the records of atomicComponents and of screens are in that order.
C8_PreOrderVisitOfEveryNode ==
  Parsed =>
    /\ { visited[i].id : i \in 1..Len(visited) } = NodeIds(document)
    /\ Len(visited) = Cardinality(NodeIds(document))
    /\ InPreOrder(visited)
    /\ InPreOrder(atomicComponents)
    /\ InPreOrder(screens)

\* C8 witness: a root with two children, both recorded as components, of
\* which the first has no children field and the second an empty one.
C8_Witness ==
  /\ Parsed
  /\ Len(document.children) = 2
  /\ ~document.children[1].hasChildren
  /\ document.children[2].hasChildren
  /\ Len(visited) = 3
  /\ Len(atomicComponents) >= 2
  /\ atomicComponents[Len(atomicComponents)].id = << 2 >>

\* C9: the children of every visited node are visited whatever its own
\* outcome, so every atomic component of the tree has its ComponentRecord,
\* also below an atomic component, a screen or an unclassified node.
C9_NoPruning ==
  Parsed =>
    /\ \A i \in 1..Len(visited) :
         \A k \in 1..Len(visited[i].children) :
           \E j \in 1..Len(visited) : visited[j].id = visited[i].children[k].id
    /\ \A node \in Nodes(document) :
         (node.type \in {"COMPONENT", "INSTANCE"}
            /\ (NameHasPattern(node, atomicPatterns) \/ BothPresentAndSmall(node)))
           => Count(atomicComponents, node.id) = 1

\* C9 witness: a chain of three nodes, an atomic component below an atomic
\* component below a screen, with both components recorded.
C9_Witness ==
  /\ Parsed
  /\ Len(visited) = 3
  /\ Len(document.children) = 1
  /\ Len(document.children[1].children) = 1
  /\ Count(screens, document.id) = 1
  /\ Count(atomicComponents, document.children[1].id) = 1
  /\ Count(atomicComponents, document.children[1].children[1].id) = 1

\* C10: check-component with the registry file read reports a component of
\* figmaComponents in newComponents iff its lower-cased name is no substring
\* of the lower-cased registry text.
C10_NewIffNotInRegistryIgnoringCase ==
  (pc = "done" /\ response.kind = "ccChecked") =>
    /\ \A i \in 1..Len(req.figmaComponents) :
         LET c == req.figmaComponents[i]
         IN (\E j \in 1..Len(response.newComponents) :
               response.newComponents[j].name = c.name)
              <=> ~includes(toLowerCase(registryContent), toLowerCase(c.name))
    /\ \A j \in 1..Len(response.newComponents) :
         \E i \in 1..Len(req.figmaComponents) :
           response.newComponents[j].name = req.figmaComponents[i].name

\* C10 witness: PrimaryButton is in the registry text only in another
\* letter case and is not reported new, while another component is.
C10_Witness ==
  /\ pc = "done"
  /\ response.kind = "ccChecked"
  /\ Len(req.figmaComponents) = 2
  /\ req.figmaComponents[1].name = "PrimaryButton"
  /\ ~includes(registryContent, "PrimaryButton")
  /\ Len(response.newComponents) = 1
  /\ response.newComponents[1].name # "PrimaryButton"

\* The tree of the end-to-end scenario: the FRAME HomeScreen (800x1200) with
\* the COMPONENTs PrimaryButton (120x40) and UserAvatar (48x48).
HomeScreenDocument ==
  WithIds(
    MkNode(Label("HomeScreen", "FRAME", TRUE, 800, 1200), TRUE,
      << MkNode(Label("PrimaryButton", "COMPONENT", TRUE, 120, 40), FALSE, <<>>),
         MkNode(Label("UserAvatar", "COMPONENT", TRUE, 48, 48), FALSE, <<>>) >>),
    <<>>)

\* C11: extraction of the HomeScreen tree yields exactly one ScreenRecord,
\* HomeScreen, and exactly two ComponentRecords, PrimaryButton of category
\* BUTTON and UserAvatar of category AVATAR; and against a registry text
\* that contains primarybutton in some letter case but not useravatar, the
\* diff of check-component reports UserAvatar as new and PrimaryButton not.
C11_EndToEndScenario ==
  /\ (document = HomeScreenDocument) =>
       /\ Len(screens) = 1
       /\ screens[1].name = "HomeScreen"
       /\ screens[1].type = "SCREEN"
       /\ Len(atomicComponents) = 2
       /\ atomicComponents[1].name = "PrimaryButton"
       /\ atomicComponents[1].category = "BUTTON"
       /\ atomicComponents[2].name = "UserAvatar"
       /\ atomicComponents[2].category = "AVATAR"
  /\ ( /\ pc = "done"
       /\ response.kind = "ccChecked"
       /\ namesOf(req.figmaComponents) = << "PrimaryButton", "UserAvatar" >>
       /\ includes(toLowerCase(registryContent), "primarybutton")
       /\ ~includes(toLowerCase(registryContent), "useravatar") )
     => /\ Len(response.newComponents) = 1
        /\ response.newComponents[1].name = "UserAvatar"
        /\ response.newComponents[1].category = "AVATAR"

\* C11 witness: check-component answered for PrimaryButton and UserAvatar
\* against a registry text with PRIMARYBUTTON and without useravatar.
C11_Witness ==
  /\ pc = "done"
  /\ response.kind = "ccChecked"
  /\ namesOf(req.figmaComponents) = << "PrimaryButton", "UserAvatar" >>
  /\ includes(registryContent, "PRIMARYBUTTON")
  /\ ~includes(toLowerCase(registryContent), "useravatar")
  /\ Len(response.newComponents) = 1

\* The listing requests of the request in flight, in the order sent.
TreeCalls == SelectSeq(calls, LAMBDA c : c.to = "gitlab" /\ c.what = "tree")

RECURSIVE Concatenation(_, _)
\* The pages from the i-th on, joined in order.
Concatenation(pages, i) ==
  IF i > Len(pages) THEN <<>>
  ELSE pages[i] \o Concatenation(pages, i + 1)

\* C12: in parse-and-check the listing pages are requested in the order
\* 1, 2, 3, ..., each only after the previous one was answered; a next page
\* is requested after every non-empty page and none after the first empty
\* page, on which the loop ends; allFiles is the concatenation, in page
\* order, of the non-empty pages received.
C12_PagesInOrderUntilFirstEmpty ==
  (req.endpoint = "parse-and-check") =>
    /\ \A i \in 1..Len(TreeCalls) : TreeCalls[i].page = i
    /\ Len(TreeCalls) <= Len(received) + 1
    /\ \A i \in 1..(Len(received) - 1) : received[i] # <<>>
    /\ (pc = "tree") =>
         /\ Len(TreeCalls) = Len(received) + 1
         /\ \A i \in 1..Len(received) : received[i] # <<>>
         /\ page = Len(TreeCalls)
    /\ (received # <<>> /\ received[Len(received)] = <<>>) =>
         /\ pc # "tree"
         /\ Len(TreeCalls) = Len(received)
    /\ (received # <<>> /\ received[Len(received)] # <<>>) =>
         Len(TreeCalls) = Len(received) + 1
    /\ allFiles = Concatenation(received, 1)

\* C12 witness: two non-empty pages, then the empty third page ended the loop.
C12_Witness ==
  /\ req.endpoint = "parse-and-check"
  /\ Len(received) = 3
  /\ received[1] # <<>>
  /\ received[2] # <<>>
  /\ received[1] # received[2]
  /\ received[3] = <<>>
  /\ Len(TreeCalls) = 3
  /\ allFiles = received[1] \o received[2]
  /\ pc \in {"content", "done"}

\* A document-source request of parse-figma or parse-and-check failed.
DocumentSourceFailed ==
  /\ req.endpoint \in {"parse-figma", "parse-and-check"}
  /\ failure.at = "figma"

\* C13: when a document-source request fails in parse-figma or
\* parse-and-check, the request is answered with an error response and not
\* with success: the response carries no components and no screens, and no
\* request was sent to the registry source or to the oracle.
C13_DocumentFailureIsAnError ==
  DocumentSourceFailed =>
    /\ pc = "done"
    /\ response.status >= 400
    /\ "error" \in DOMAIN response
    /\ DOMAIN response \cap {"success", "components", "screens", "fileInfo"} = {}
    /\ \A i \in 1..Len(calls) : calls[i].to = "figma"
    /\ atomicComponents = <<>>
    /\ screens = <<>>

\* C13 witness: parse-and-check with a nodeId; the file arrived and the
\* node request failed.
C13_Witness ==
  /\ DocumentSourceFailed
  /\ req.endpoint = "parse-and-check"
  /\ Len(calls) = 2
  /\ calls[2].what = "node"
  /\ fileInfo # NoFileInfo
  /\ response.kind = "error"

\* C14: an error of the document source or of the registry source is
\* answered, in parse-figma and in parse-and-check, with an error response
\* whose status is the status the failing source returned, and not with a
\* success response.
C14_SourceStatusPreserved ==
  ( /\ pc = "done"
    /\ req.endpoint \in {"parse-figma", "parse-and-check"}
    /\ failure.at \in {"figma", "gitlab"}
    /\ failure.status # Undefined )
  => /\ response.status = failure.status
     /\ "success" \notin DOMAIN response

\* The name of the node at position pos of the tree.
NameAt(tree, pos) == (CHOOSE n \in Nodes(tree) : n.id = pos).name

\* The names from the root down to the node at position pos, inclusive.
NamesDownTo(tree, pos) ==
  [ k \in 1..(Len(pos) + 1) |-> NameAt(tree, SubSeq(pos, 1, k - 1)) ]

\* C16: the path of every ComponentRecord is the names of all strict
\* ancestors of its node, root first, followed by the node's own name: its
\* length is the node's depth plus one, and a root component has the path
\* of its own name alone.
C16_PathIsAncestorsThenSelf ==
  Parsed =>
    \A i \in 1..Len(atomicComponents) :
      LET r == atomicComponents[i]
      IN /\ r.path = NamesDownTo(document, r.id)
         /\ Len(r.path) = Len(r.id) + 1
         /\ r.path[Len(r.path)] = r.name
         /\ (r.id = <<>>) => (r.path = << r.name >>)

\* C16 witness: a component at depth two, under a frame under a group.
C16_Witness ==
  /\ Parsed
  /\ \E i \in 1..Len(atomicComponents) :
       /\ Len(atomicComponents[i].id) = 2
       /\ atomicComponents[i].path = << "Group", "HomeScreen", "PrimaryButton" >>

\* parse-and-check answered with a success response.
ParseAndCheckSucceeded ==
  /\ pc = "done"
  /\ req.endpoint = "parse-and-check"
  /\ response.kind \in {"notFound", "gitlabError", "checked"}

\* Every record of sub is a record of full, and they come in full's order.
IsSelection(sub, full) ==
  /\ \A i \in 1..Len(sub) : \E j \in 1..Len(full) : sub[i] = full[j]
  /\ \A i, j \in 1..Len(sub) :
       i < j => \E k, l \in 1..Len(full) :
                  k < l /\ sub[i] = full[k] /\ sub[j] = full[l]

\* C17: every success response of parse-and-check carries the screens list
\* the classifier produced, unmodified, and the fileInfo of the document
\* source's answer; the records of its existing and new lists are records
\* of the classifier, unchanged.
C17_MatcherOnlySelects ==
  ParseAndCheckSucceeded =>
    /\ response.status = 200
    /\ response.screens = extractAllNestedComponents(document).screens
    /\ response.screens = screens
    /\ response.fileInfo = fileInfo
    /\ fileInfo \in FileInfos
    /\ IsSelection(response.components.existing, atomicComponents)
    /\ IsSelection(response.components.new, atomicComponents)

\* C17 witness: a diff with a screen, an existing and a new component.
C17_Witness ==
  /\ ParseAndCheckSucceeded
  /\ response.kind = "checked"
  /\ Len(response.screens) = 1
  /\ Len(response.components.existing) = 1
  /\ Len(response.components.new) = 1
  /\ response.components.existing[1] = atomicComponents[1]
  /\ response.components.new[1] = atomicComponents[2]

\* The requests sent to the oracle for the request in flight.
OracleCalls == SelectSeq(calls, LAMBDA c : c.to = "openai")

\* The listing loop has ended on an empty page.
ListingCompleted == received # <<>> /\ received[Len(received)] = <<>>

\* C18: parse-and-check calls the oracle at most once per request, and only
\* after the listing completed, the registry file was found and its content
\* was requested and received; it is then called whatever the content, with
\* the names of all atomic components; it is not called when the registry
\* file was not found or a registry-source request failed; and a request
\* has been answered exactly when its handler has finished.
C18_OracleOnceAfterRegistryRead ==
  /\ (pc = "done") <=> (response # NoResponse)
  /\ (req.endpoint = "parse-and-check") =>
       /\ Len(OracleCalls) <= 1
       /\ (Len(OracleCalls) = 1) =>
            /\ ListingCompleted
            /\ registryFile.found
            /\ Len(calls) >= 2
            /\ calls[Len(calls)].to = "openai"
            /\ calls[Len(calls) - 1].what = "raw"
            /\ calls[Len(calls)].names = namesOf(atomicComponents)
            /\ failure.at \notin {"figma", "gitlab"}
            /\ pc \in {"oracle", "done"}
       /\ (pc = "oracle" \/ failure.at \in {"oracle", "analysis"}
             \/ response.kind = "checked") => Len(OracleCalls) = 1
       /\ (response.kind = "notFound" \/ failure.at = "gitlab"
             \/ ~registryFile.found) => Len(OracleCalls) = 0

\* C18 witness: the oracle was asked about both components although the
\* registry text contains both names.
C18_Witness ==
  /\ req.endpoint = "parse-and-check"
  /\ pc = "done"
  /\ response.kind = "checked"
  /\ Len(OracleCalls) = 1
  /\ OracleCalls[1].names = << "PrimaryButton", "UserAvatar" >>
  /\ \A i \in 1..Len(atomicComponents) :
       inRegistry(atomicComponents[i], registryContent)

\* The oracle step of parse-and-check went wrong: the call threw or its
\* answer was no JSON, or the parsed answer has no array-valued existing
\* or new.
OracleAnswerUnusable ==
  /\ pc = "done"
  /\ req.endpoint = "parse-and-check"
  /\ \/ failure.at \in {"oracle", "analysis"}
     \/ /\ response.kind = "checked"
        /\ ~(response.components.analysis.hasExisting
               /\ response.components.analysis.hasNew)

\* C19: when the oracle call throws, its answer is no JSON, or the parsed
\* answer lacks an array-valued existing or new, parse-and-check still
\* answers with a success report whose existing list is empty and whose new
\* list is the full catalogue, never a part of it.
C19_UnusableOracleAnswerAllNew ==
  OracleAnswerUnusable =>
    /\ response.status = 200
    /\ response.success
    /\ response.components.existing = <<>>
    /\ response.components.new = atomicComponents
    /\ response.components.new = extractAllNestedComponents(document).components
    /\ response.screens = screens

\* C19 witness: two components, and a parsed answer without an array-valued
\* existing or new, on which a filter throws.
C19_Witness ==
  /\ OracleAnswerUnusable
  /\ failure.at = "analysis"
  /\ Len(atomicComponents) = 2
  /\ response.kind = "gitlabError"
  /\ response.components.new = atomicComponents

====
